---- MODULE Spec2Model ----
(***************************************************************************)
(* A model of the option pricing notebooks of Financial-Engineering:       *)
(*   Pricing-Vanilla-Options.ipynb  vanillaBS, vanillaTree, vanillaMC      *)
(*   Up-and-Out-Call.ipynb          d1, d2, discounted_value,              *)
(*                                  analytical_value_Call_Up_Out, the      *)
(*                                  Monte Carlo cell and the CVA cell      *)
(*                                                                         *)
(* Real numbers are fixed-point integers with SCALE units to 1 (a float x  *)
(* is the integer x*SCALE, rounded down).  Prices given as integer         *)
(* literals in the notebooks (S, K, L, V, debt) are plain integers.        *)
(***************************************************************************)
EXTENDS Integers, Sequences, FiniteSets, TLC

\* One unit of the fixed-point representation: 1.0 is SCALE.
SCALE == 10^4

\* A price literal as a fixed-point number.
Fix(n) == n * SCALE

\* Float product a*b, rounded down; split so that no intermediate exceeds 32 bits.
MulFix(a, b) ==
    LET ah == a \div SCALE
        al == a % SCALE
        bh == b \div SCALE
        bl == b % SCALE
    IN  ah * bh * SCALE + ah * bl + al * bh + (al * bl) \div SCALE

\* Float quotient a/b for b > 0, rounded down; split like the product.
DivFix(a, b) == (a \div b) * SCALE + ((a % b) * SCALE) \div b

\* Integer square root by Newton's iteration.
RECURSIVE SqrtIter(_, _)
SqrtIter(n, g) ==
    LET g2 == (g + n \div g) \div 2
    IN  IF g2 >= g THEN g ELSE SqrtIter(n, g2)

\* np.sqrt on a fixed-point argument x >= 0: the integer root of x*SCALE, or
\* for large x (where that product passes 32 bits) root(x)*root(SCALE).
np_sqrt(x) ==
    IF x = 0 THEN 0
    ELSE IF x < 20 * SCALE THEN SqrtIter(x * SCALE, x * SCALE)
    ELSE SqrtIter(x, x) * SqrtIter(SCALE, SCALE)

\* The Taylor series of e^x after the constant term: sum of x^n/n!, n = 1..10.
RECURSIVE ExpSeries(_, _, _, _)
ExpSeries(x, term, n, acc) ==
    IF n > 10 THEN acc
    ELSE LET t == MulFix(term, x) \div n
         IN  ExpSeries(x, t, n + 1, acc + t)

\* np.exp on a fixed-point argument: halve the argument until |x| <= 1/2,
\* then the series, then square back.
RECURSIVE np_exp(_)
np_exp(x) ==
    IF x > SCALE \div 2 \/ x < -(SCALE \div 2)
    THEN LET h == np_exp(x \div 2) IN MulFix(h, h)
    ELSE SCALE + ExpSeries(x, SCALE, 1, 0)

\* The series z + z^3/3 + z^5/5 + ... of (1/2) ln((1+z)/(1-z)) for z >= 0,
\* odd powers to z^21.
RECURSIVE LogSeries(_, _, _, _)
LogSeries(z2, pw, n, acc) ==
    IF n > 21 THEN acc
    ELSE LogSeries(z2, MulFix(pw, z2), n + 2, acc + pw \div n)

\* np.log on a fixed-point argument x > 0: bring x into [1/2, 2] by factors
\* of two (ln 2 = 0.6931), then the series in z = |x-1|/(x+1), with the sign
\* of x-1.
RECURSIVE np_log(_)
np_log(x) ==
    IF x > 2 * SCALE THEN np_log(x \div 2) + 6931
    ELSE IF x < SCALE \div 2 THEN np_log(2 * x) - 6931
    ELSE IF x >= SCALE
         THEN LET z == DivFix(x - SCALE, x + SCALE)
              IN  2 * LogSeries(MulFix(z, z), z, 1, 0)
         ELSE LET z == DivFix(SCALE - x, x + SCALE)
              IN  -(2 * LogSeries(MulFix(z, z), z, 1, 0))

\* Float power a**b for a > 0: e^(b ln a).
PowFix(a, b) == np_exp(MulFix(b, np_log(a)))

\* Integer power of a fixed-point number, u**k with k >= 0, by repeated product.
RECURSIVE PowInt(_, _)
PowInt(u, k) == IF k = 0 THEN SCALE ELSE MulFix(PowInt(u, k - 1), u)

\* The standard normal distribution function at 0, 0.05, 0.10, ..., 4.05.
CdfTable ==
    << 5000, 5199, 5398, 5596, 5793, 5987, 6179, 6368, 6554, 6736, 6915,
       7088, 7257, 7422, 7580, 7734, 7881, 8023, 8159, 8289, 8413, 8531,
       8643, 8749, 8849, 8944, 9032, 9115, 9192, 9265, 9332, 9394, 9452,
       9505, 9554, 9599, 9641, 9678, 9713, 9744, 9772, 9798, 9821, 9842,
       9861, 9878, 9893, 9906, 9918, 9929, 9938, 9946, 9953, 9960, 9965,
       9970, 9974, 9978, 9981, 9984, 9987, 9989, 9990, 9992, 9993, 9994,
       9995, 9996, 9997, 9997, 9998, 9998, 9998, 9999, 9999, 9999, 9999,
       9999, 10000, 10000, 10000, 10000 >>

\* The distribution function on x >= 0: linear interpolation in the table.
CdfPos(x) ==
    LET step == SCALE \div 20
        k    == x \div step
        f    == x % step
    IN  IF k + 2 > Len(CdfTable) THEN SCALE
        ELSE CdfTable[k + 1] + ((CdfTable[k + 2] - CdfTable[k + 1]) * f) \div step

\* scipy.stats.norm.cdf: the left tail is the complement of the right one.
norm_cdf(x) == IF x < 0 THEN SCALE - CdfPos(-x) ELSE CdfPos(x)

(***************************************************************************)
(* State.                                                                  *)
(***************************************************************************)
VARIABLES
    S,          \* the module-level spot (Up-and-Out-Call cell 1; the driver cell)
    bsCall,     \* <<>> or <<[args, price]>>: the last vanillaBS(..., call=True)
    bsPut,      \* <<>> or <<[args, price]>>: the last vanillaBS(..., call=False)
    upOutCalls, \* the last two calls of analytical_value_Call_Up_Out, oldest first
    pc,         \* vanillaTree: "idle", "forward", "terminal", "backward", "return", "done"
    tp,         \* vanillaTree: <<>> or <<[args, dt, u, d, p]>>, the call's locals
    tree,       \* vanillaTree: the grid of asset prices
    call,       \* vanillaTree: the grid of call values (<<>> before it is allocated)
    put,        \* vanillaTree: the grid of put values (<<>> before it is allocated)
    ti,         \* vanillaTree: the row index i of the running loop
    tj,         \* vanillaTree: the column index j of the running loop
    visit,      \* vanillaTree: <<>> or <<[node, reads, final]>>, the last induction step
    assigned,   \* vanillaTree: the option-grid nodes that hold their final value
    rewritten,  \* vanillaTree: the option-grid nodes assigned again after that
    treeOut,    \* vanillaTree: <<>> or <<[status, price]>>, how the call ended
    gen,        \* np.random: the variate the generator yields in each of its states
    rng,        \* np.random: the process-wide generator state
    mcOut,      \* <<>> or <<[args, again, rngBefore, dt, steps, path, price]>>: the last
                \* vanillaMC; again: the call before it had the same arguments;
                \* rngBefore: the generator state the call found
    uoOut,      \* <<>> or the outputs of the last run of the Monte Carlo barrier cell
    C,          \* the module-level vanilla call value C
    cvaOut      \* <<>> or the outputs of the last run of the CVA cell

treeVars == << pc, tp, tree, call, put, ti, tj, visit, assigned, rewritten, treeOut >>
simVars == << gen, rng, mcOut, uoOut, C, cvaOut >>
vars == << S, bsCall, bsPut, upOutCalls, treeVars, simVars >>

(***************************************************************************)
(* Pricing-Vanilla-Options.ipynb: vanillaBS.                               *)
(***************************************************************************)
\* d1 of vanillaBS: (log(S/K) + (r + sig**2/2)*T) / (sig*sqrt(T)).
bs_d1(S0, K, T, sig, r) ==
    DivFix(np_log(DivFix(S0, K)) + MulFix(r + MulFix(sig, sig) \div 2, T),
           MulFix(sig, np_sqrt(T)))

\* d2 of vanillaBS: d1 - sig*sqrt(T).
bs_d2(S0, K, T, sig, r) == bs_d1(S0, K, T, sig, r) - MulFix(sig, np_sqrt(T))

\* C = S*cdf(d1) - exp(-r*T)*K*cdf(d2).
bs_C(S0, K, T, sig, r) ==
    S0 * norm_cdf(bs_d1(S0, K, T, sig, r))
      - MulFix(np_exp(-MulFix(r, T)) * K, norm_cdf(bs_d2(S0, K, T, sig, r)))

\* bs_P with the sign of d2 lost in the strike term: cdf(d2) for cdf(-d2).
bs_P_SignSlip(S0, K, T, sig, r) ==
    -(S0 * norm_cdf(-bs_d1(S0, K, T, sig, r)))
      + MulFix(np_exp(-MulFix(r, T)) * K, norm_cdf(bs_d2(S0, K, T, sig, r)))

\* P = -S*cdf(-d1) + exp(-r*T)*K*cdf(-d2).
bs_P(S0, K, T, sig, r) ==
    -(S0 * norm_cdf(-bs_d1(S0, K, T, sig, r)))
      + MulFix(np_exp(-MulFix(r, T)) * K, norm_cdf(-bs_d2(S0, K, T, sig, r)))

\* vanillaBS(S, K, T, sig, r, call): C if call else P.
vanillaBS(S0, K, T, sig, r, c) ==
    IF c THEN bs_C(S0, K, T, sig, r) ELSE bs_P(S0, K, T, sig, r)

\* The inputs the analytical pricer is called with.
BSSpots   == {80, 100}
BSStrikes == {100, 110}
BSTimes   == {SCALE, 2 * SCALE}
BSVols    == {SCALE \div 5, (3 * SCALE) \div 10}
BSRates   == {0, SCALE \div 25}
BSArgs    == [S0 : BSSpots, K : BSStrikes, T : BSTimes, sig : BSVols, r : BSRates]

\* A call of vanillaBS: the price is kept with its arguments.
CallVanillaBS(a, c) ==
    LET out == << [args |-> a, price |-> vanillaBS(a.S0, a.K, a.T, a.sig, a.r, c)] >>
    IN  /\ bsCall' = IF c THEN out ELSE bsCall
        /\ bsPut' = IF c THEN bsPut ELSE out
        /\ UNCHANGED << S, upOutCalls, treeVars, simVars >>

\* The state before any cell has run, but for the module-level spot and the
\* random generator.
FreshPricers ==
    /\ bsCall = << >>
    /\ bsPut = << >>
    /\ upOutCalls = << >>
    /\ pc = "idle"
    /\ tp = << >>
    /\ tree = << >>
    /\ call = << >>
    /\ put = << >>
    /\ ti = 0
    /\ tj = 0
    /\ visit = << >>
    /\ assigned = {}
    /\ rewritten = {}
    /\ treeOut = << >>
    /\ mcOut = << >>
    /\ uoOut = << >>
    /\ cvaOut = << >>

\* The same, in a process that draws no random numbers.
Fresh ==
    /\ FreshPricers
    /\ gen = << >>
    /\ rng = 0
    /\ C = 0

InitBS ==
    /\ S = 100
    /\ Fresh

NextBS == \E a \in BSArgs, c \in BOOLEAN : CallVanillaBS(a, c)

SpecBS == InitBS /\ [][NextBS]_vars

(***************************************************************************)
(* Up-and-Out-Call.ipynb: d1, d2, analytical_value_Call_Up_Out.            *)
(***************************************************************************)
\* d1(S,K,r,sigma,tau): (log(S/K) + (r + sigma**2/2)*tau) / (sigma*sqrt(tau)).
d1(S0, K, r, sigma, tau) ==
    DivFix(np_log(DivFix(S0, K)) + MulFix(r + MulFix(sigma, sigma) \div 2, tau),
           MulFix(sigma, np_sqrt(tau)))

\* d2(S,K,r,sigma,tau): d1 - sigma*sqrt(tau).
d2(S0, K, r, sigma, tau) == d1(S0, K, r, sigma, tau) - MulFix(sigma, np_sqrt(tau))

\* The value analytical_value_Call_Up_Out(S0,K,L,r,sigma,T) returns when the
\* module-level spot holds Sg: the first two terms of the return expression
\* are written with the global S, the others with the parameter S0.
UpOutValue(Sg, S0, K, L, r, sigma, T) ==
    LET sqT == MulFix(sigma, np_sqrt(T))
        l   == DivFix(r + MulFix(sigma, sigma) \div 2, MulFix(sigma, sigma))
        lsT == MulFix(MulFix(l, sigma), np_sqrt(T))
        x1  == DivFix(np_log(DivFix(S0, L)), sqT) + lsT
        y1  == DivFix(np_log(DivFix(L, S0)), sqT) + lsT
        y   == DivFix(np_log(DivFix(L * L, S0 * K)), sqT) + lsT
        KD  == K * np_exp(-MulFix(r, T))
        LS  == DivFix(L, S0)
    IN  Sg * norm_cdf(d1(Sg, K, r, sigma, T))
          - MulFix(KD, norm_cdf(d2(Sg, K, r, sigma, T)))
          - S0 * norm_cdf(x1)
          + MulFix(KD, norm_cdf(x1 - sqT))
          + MulFix(S0 * PowFix(LS, 2 * l), norm_cdf(-y) - norm_cdf(-y1))
          - MulFix(MulFix(KD, PowFix(LS, 2 * l - 2 * SCALE)),
                   norm_cdf(-y + sqT) - norm_cdf(-y1 + sqT))

\* How a call of analytical_value_Call_Up_Out ends: the function body is
\* assignments and one return, with no check of its arguments and no raise.
analytical_value_Call_Up_Out(Sg, a) ==
    [status |-> "returned",
     value  |-> UpOutValue(Sg, a.S0, a.K, a.L, a.r, a.sigma, a.T)]

\* The values the module-level spot is assigned, and the arguments of the calls.
SpotLiterals == {90, 100, 110}
UpOutSpots   == {100, 150, 160}
UpOutStrikes == {100, 120}
UpOutArgs ==
    [S0 : UpOutSpots, K : UpOutStrikes, L : {150}, r : {(8 * SCALE) \div 100},
     sigma : {(3 * SCALE) \div 10}, T : {SCALE}]

\* The parameter cell: S = <literal>.
AssignS(v) ==
    /\ S' = v
    /\ UNCHANGED << bsCall, bsPut, upOutCalls, treeVars, simVars >>

\* A call analytical_value_Call_Up_Out(S0,K,L,r,sigma,T); the last two calls
\* are kept with their arguments.
CallUpOut(a) ==
    LET rec == [args |-> a, out |-> analytical_value_Call_Up_Out(S, a)]
    IN  /\ upOutCalls' = IF upOutCalls = << >> THEN << rec >>
                         ELSE << upOutCalls[Len(upOutCalls)], rec >>
        /\ UNCHANGED << S, bsCall, bsPut, treeVars, simVars >>

InitBarrier ==
    /\ S \in SpotLiterals
    /\ Fresh

NextBarrier ==
    \/ \E v \in SpotLiterals : AssignS(v)
    \/ \E a \in UpOutArgs : CallUpOut(a)

SpecBarrier == InitBarrier /\ [][NextBarrier]_vars

(***************************************************************************)
(* Pricing-Vanilla-Options.ipynb: vanillaTree, one loop iteration a step.  *)
(***************************************************************************)
\* The largest number of steps N the lattice is built with.
MaxN == 3

\* The nodes of an (N+1)x(N+1) array, <<row, column>>, and those on or above
\* its diagonal.
Grid(N) == (0..N) \X (0..N)
Triangle(N) == {n \in Grid(N) : n[1] <= n[2]}

\* np.zeros((N+1,N+1)).
Zeros(N) == [n \in Grid(N) |-> 0]

\* The arguments of the calls; the parameter d is overwritten before any use.
TreeArgs ==
    [S0 : {100}, K : {100}, T : {SCALE}, N : 1..MaxN, sig : {SCALE \div 5},
     r : {SCALE \div 25, SCALE \div 2, -(SCALE \div 2)}, d : {0}, c : BOOLEAN]

\* dt = T/N; u = exp(sig*sqrt(dt)); d = 1/u; p = (exp(r*dt)-d)/(u-d).
TreeLocals(a) ==
    LET dt == a.T \div a.N
        u  == np_exp(MulFix(a.sig, np_sqrt(dt)))
        d  == DivFix(SCALE, u)
    IN  [args |-> a, dt |-> dt, u |-> u, d |-> d,
         p |-> DivFix(np_exp(MulFix(a.r, dt)) - d, u - d)]

\* S*u**(j-i)*d**i.
NodePrice(S0, u, d, i, j) == MulFix(S0 * PowInt(u, j - i), PowInt(d, i))

\* np.maximum(0, x).
Maximum0(x) == IF x > 0 THEN x ELSE 0

\* The two nodes an induction step at node (i, j) reads: [i,j+1] and [i+1,j+1].
Children(i, j) == { <<i, j + 1>>, <<i + 1, j + 1>> }

\* BackwardStart one column late: range(N,-1,-1).
BackwardStartAtN(N) == N

\* The column the backward loop starts at: range(N-1,-1,-1).
BackwardStart(N) == N - 1

\* An element of an option grid; an index outside the array reads as 0 here
\* (the step records the index, and no run of the loops produces one).
At(g, n) == IF n \in DOMAIN g THEN g[n] ELSE 0

\* exp(-r*dt)*(p*g[i,j+1] + (1-p)*g[i+1,j+1]).
Induct(g, l, i, j) ==
    MulFix(np_exp(-MulFix(l.args.r, l.dt)),
           MulFix(l.p, At(g, <<i, j + 1>>)) + MulFix(SCALE - l.p, At(g, <<i + 1, j + 1>>)))

\* Entry: tree = zeros, and the locals dt, u, d, p.
TreeEnter(a) ==
    /\ pc \in {"idle", "done"}
    /\ tp' = << TreeLocals(a) >>
    /\ tree' = Zeros(a.N)
    /\ call' = << >>
    /\ put' = << >>
    /\ ti' = 0
    /\ tj' = 0
    /\ visit' = << >>
    /\ assigned' = {}
    /\ rewritten' = {}
    /\ treeOut' = << >>
    /\ pc' = "forward"
    /\ UNCHANGED << S, bsCall, bsPut, upOutCalls, simVars >>

\* One iteration of: for j in range(N+1): for i in range(j+1): tree[i,j] = ...
ForwardStep ==
    /\ pc = "forward"
    /\ LET l == tp[1]
           N == l.args.N
       IN  /\ tree' = [tree EXCEPT ![<<ti, tj>>] = NodePrice(l.args.S0, l.u, l.d, ti, tj)]
           /\ IF ti < tj
              THEN /\ ti' = ti + 1
                   /\ UNCHANGED << tj, pc >>
              ELSE IF tj < N
                   THEN /\ ti' = 0
                        /\ tj' = tj + 1
                        /\ UNCHANGED pc
                   ELSE /\ pc' = "terminal"
                        /\ UNCHANGED << ti, tj >>
    /\ UNCHANGED << simVars, S, bsCall, bsPut, upOutCalls, tp, call, put, visit, assigned,
                    rewritten, treeOut >>

\* call = zeros; put = zeros; call[:,N] = maximum(0, tree[:,N]-K);
\* put[:,N] = maximum(0, -tree[:,N]+K); then the backward loop is entered at
\* j = N-1, i = 0, or skipped when its range is empty.
TreeTerminal ==
    /\ pc = "terminal"
    /\ LET l == tp[1]
           N == l.args.N
           K == Fix(l.args.K)
       IN  /\ call' = [n \in Grid(N) |->
                         IF n[2] = N THEN Maximum0(tree[n] - K) ELSE 0]
           /\ put' = [n \in Grid(N) |->
                         IF n[2] = N THEN Maximum0(-tree[n] + K) ELSE 0]
           /\ assigned' = {n \in Grid(N) : n[2] = N}
           /\ tj' = BackwardStart(N)
           /\ ti' = 0
           /\ pc' = IF BackwardStart(N) >= 0 THEN "backward" ELSE "return"
    /\ UNCHANGED << simVars, S, bsCall, bsPut, upOutCalls, tp, tree, visit, rewritten, treeOut >>

\* One iteration of: for j in range(N-1,-1,-1): for i in range(j+1):
\* call[i,j] = ...; put[i,j] = ...
BackwardStep ==
    /\ pc = "backward"
    /\ LET l == tp[1]
       IN  /\ visit' = << [node |-> <<ti, tj>>, reads |-> Children(ti, tj),
                          final |-> Children(ti, tj) \cap assigned] >>
           /\ call' = [call EXCEPT ![<<ti, tj>>] = Induct(call, l, ti, tj)]
           /\ put' = [put EXCEPT ![<<ti, tj>>] = Induct(put, l, ti, tj)]
           /\ rewritten' = rewritten \cup ({ <<ti, tj>> } \cap assigned)
           /\ assigned' = assigned \cup { <<ti, tj>> }
           /\ IF ti < tj
              THEN /\ ti' = ti + 1
                   /\ UNCHANGED << tj, pc >>
              ELSE IF tj > 0
                   THEN /\ ti' = 0
                        /\ tj' = tj - 1
                        /\ UNCHANGED pc
                   ELSE /\ pc' = "return"
                        /\ UNCHANGED << ti, tj >>
    /\ UNCHANGED << simVars, S, bsCall, bsPut, upOutCalls, tp, tree, treeOut >>

\* return call[0,0] if c else put[0,0].
TreeReturn ==
    /\ pc = "return"
    /\ treeOut' = << [status |-> "returned",
                      price |-> IF tp[1].args.c THEN call[<<0, 0>>] ELSE put[<<0, 0>>]] >>
    /\ pc' = "done"
    /\ UNCHANGED << simVars, S, bsCall, bsPut, upOutCalls, tp, tree, call, put, ti, tj, visit,
                    assigned, rewritten >>

InitTree ==
    /\ S = 100
    /\ Fresh

NextTree ==
    \/ \E a \in TreeArgs : TreeEnter(a)
    \/ ForwardStep
    \/ TreeTerminal
    \/ BackwardStep
    \/ TreeReturn

SpecTree == InitTree /\ [][NextTree]_vars

(***************************************************************************)
(* np.random: one process-wide generator.  It has RngPeriod states; in     *)
(* state s it yields gen[s] and moves to s+1.  What it yields is fixed but *)
(* unknown: every table of variates is a possible generator.               *)
(***************************************************************************)
\* The number of states of the generator.
RngPeriod == 3

\* The standard normal variates a draw can yield: -1.0 and +1.0.
Normals == {-SCALE, SCALE}

\* np.random.seed(seed): the state the generator is put in.
SeedState(seed) == seed % RngPeriod

\* The k-th variate (k = 0, 1, ...) drawn from state s.
Draw(s, k) == gen[(s + k) % RngPeriod]

\* The state after n draws from state s.
Advance(s, n) == (s + n) % RngPeriod

\* np.cumprod along a row x of length k: the running products.
RECURSIVE CumProd(_, _)
CumProd(x, k) ==
    IF k = 1 THEN << x[1] >>
    ELSE LET c == CumProd(x, k - 1) IN Append(c, MulFix(c[k - 1], x[k]))

\* A row that starts at x0 and is multiplied by f[1], ..., f[k] in turn:
\* row[j+1] = row[j]*f[j+1].
RECURSIVE StepRow(_, _, _)
StepRow(x0, f, k) ==
    IF k = 0 THEN << x0 >>
    ELSE LET c == StepRow(x0, f, k - 1) IN Append(c, MulFix(c[k], f[k]))

\* The sum of the first k elements, the mean and the (population) standard
\* deviation of a row: x.mean(), x.std().
RECURSIVE SumSeq(_, _)
SumSeq(x, k) == IF k = 0 THEN 0 ELSE SumSeq(x, k - 1) + x[k]

Mean(x) == SumSeq(x, Len(x)) \div Len(x)

Std(x) ==
    LET m == Mean(x)
    IN  np_sqrt(Mean([k \in 1..Len(x) |-> MulFix(x[k] - m, x[k] - m)]))

\* np.max of a row.
RECURSIVE MaxSeq(_, _)
MaxSeq(x, k) ==
    IF k = 1 THEN x[1]
    ELSE LET m == MaxSeq(x, k - 1) IN IF x[k] > m THEN x[k] ELSE m

(***************************************************************************)
(* Pricing-Vanilla-Options.ipynb: vanillaMC.                               *)
(***************************************************************************)
\* dt = 0.1, and the number of steps int(1/dt).
McDt == SCALE \div 10
McSteps == SCALE \div McDt

\* McStart without the call of np.random.seed: the draws go on from state s.
McStartUnseeded(s) == s

\* np.random.seed(42): the state vanillaMC draws from, whatever state s the
\* generator was in when the function was entered.
McStart(s) == SeedState(42)

\* The arguments of the calls: N is the number of paths.
McArgs ==
    [S0 : {100}, K : {100}, T : {SCALE, 2 * SCALE}, N : {1, 2}, sig : {SCALE \div 5},
     r : {SCALE \div 25}, c : BOOLEAN]

\* One factor exp((r-(sig**2)/2.0)*dt + W) with W = z*sig*sqrt(dt).
McIncrement(sig, r, z) ==
    np_exp(MulFix(r - MulFix(sig, sig) \div 2, McDt)
             + MulFix(MulFix(z, sig), np_sqrt(McDt)))

\* The factors by argument and variate, computed once.
McIncrements ==
    [a \in McArgs |-> [z \in Normals |-> McIncrement(a.sig, a.r, z)]]

\* path = cumprod(exp(...), 1)*S drawn from state s0: N rows of McSteps columns,
\* the variates taken row by row.
McPath(a, s0) ==
    [n \in 1..a.N |->
        LET incr == [k \in 1..McSteps |->
                        McIncrements[a][Draw(s0, (n - 1) * McSteps + (k - 1))]]
            prod == CumProd(incr, McSteps)
        IN  [k \in 1..McSteps |-> a.S0 * prod[k]]]

\* exp(-r*T)*maximum(ST-K,0).mean() if c else exp(-r*T)*maximum(-ST+K,0).mean(),
\* with ST = path[:,-1].
McPrice(a, path) ==
    LET ST == [n \in 1..a.N |-> path[n][McSteps]]
    IN  IF a.c
        THEN MulFix(np_exp(-MulFix(a.r, a.T)),
                    Mean([n \in 1..a.N |-> Maximum0(ST[n] - Fix(a.K))]))
        ELSE MulFix(np_exp(-MulFix(a.r, a.T)),
                    Mean([n \in 1..a.N |-> Maximum0(-ST[n] + Fix(a.K))]))

\* A call vanillaMC(S, K, T, N, sig, r, c).
CallVanillaMC(a) ==
    LET s0   == McStart(rng)
        path == McPath(a, s0)
    IN  /\ mcOut' = << [args |-> a, again |-> (mcOut # << >> /\ mcOut[1].args = a),
                        rngBefore |-> rng, dt |-> McDt, steps |-> McSteps,
                        path |-> path, price |-> McPrice(a, path)] >>
        /\ rng' = Advance(s0, a.N * McSteps)
        /\ UNCHANGED << S, bsCall, bsPut, upOutCalls, treeVars, gen, uoOut, C, cvaOut >>

\* The notebook's process: every generator, in any state, before the first call.
InitMC ==
    /\ S = 100
    /\ FreshPricers
    /\ gen \in [0..(RngPeriod - 1) -> Normals]
    /\ rng \in 0..(RngPeriod - 1)
    /\ C = 0

NextMC == \E a \in McArgs : CallVanillaMC(a)

SpecMC == InitMC /\ [][NextMC]_vars

(***************************************************************************)
(* Up-and-Out-Call.ipynb: the parameter cell, discounted_value, the Monte  *)
(* Carlo cell, the vanilla call cell and the CVA cell.                     *)
(***************************************************************************)
\* The module-level parameters other than S and recovery:
\* T = 1; L = 150; r = 0.08; sigma = 0.3; sigma2 = 0.25; rho = 0.2;
\* debt = 175; V = 200; and a strike of 100.
Params ==
    [T |-> SCALE, K |-> 100, L |-> 150, r |-> (8 * SCALE) \div 100,
     sigma |-> (3 * SCALE) \div 10, sigma2 |-> SCALE \div 4, rho |-> SCALE \div 5,
     debt |-> 175, V |-> 200]

\* The values the recovery rate is given.
Recoveries == {0, SCALE \div 4, SCALE}

\* np.exp(-r*T) at the module-level r and T.
Discount == np_exp(-MulFix(Params.r, Params.T))

\* discounted_value(S,K,r,T): exp(-r*T)*maximum(S-K, 0), S a fixed-point price.
discounted_value(ST, K, r, T) == MulFix(np_exp(-MulFix(r, T)), Maximum0(ST - Fix(K)))

\* The Monte Carlo cell: the number of batches (30 in the notebook), the paths
\* of batch i over i (1000) and 1/dt (10000).
UoBatches == 2
UoPathUnit == 1
UoDtInv == 2

\* dt = 1/10000 and the number of steps int(1/dt).
UoDt == SCALE \div UoDtInv
UoSteps == SCALE \div UoDt

\* One factor exp((r-(sigma**2)/2.0)*dt + W) with W = z*sigma*sqrt(dt).
UoIncrement(z) ==
    np_exp(MulFix(Params.r - MulFix(Params.sigma, Params.sigma) \div 2, UoDt)
             + MulFix(MulFix(z, Params.sigma), np_sqrt(UoDt)))

\* The factors by variate, computed once.
UoIncrements == [z \in Normals |-> UoIncrement(z)]

\* The knock-out test of the Monte Carlo cell: np.max(path,axis=1) > L.
UoKnockedOut(mx, L) == mx > Fix(L)

\* The value of one path of the Monte Carlo cell: ST = path[:,-1], zeroed when
\* the path is knocked out, then discounted_value(ST,K,r,T).
UoValue(mx, last) ==
    IF UoKnockedOut(mx, Params.L) THEN MulFix(Discount, Maximum0(0 - Fix(Params.K)))
    ELSE MulFix(Discount, Maximum0(last - Fix(Params.K)))

\* Batch i of the Monte Carlo cell, drawn from state s0 after `off` earlier
\* draws: for each path its maximum, its terminal price and its value.
UoBatch(i, s0, off) ==
    [a \in 1..(i * UoPathUnit) |->
        LET incr == [b \in 1..UoSteps |->
                        UoIncrements[Draw(s0, off + (a - 1) * UoSteps + (b - 1))]]
            prod == CumProd(incr, UoSteps)
            path == << Fix(S) >> \o [b \in 1..UoSteps |-> S * prod[b]]
            mx   == MaxSeq(path, Len(path))
            last == path[Len(path)]
        IN  [mx |-> mx, last |-> last, val |-> UoValue(mx, last)]]

\* The draws made before batch i: the sizes of batches 1..i-1.
UoOffset(i) == (UoPathUnit * UoSteps * (i - 1) * i) \div 2

\* The Monte Carlo cell: np.random.seed(42), the batches i = 1..30, then
\* analyValue = analytical_value_Call_Up_Out(S,K,L,r,sigma,T).
UpOutCell ==
    LET g  == Params
        s0 == SeedState(42)
        bs == [i \in 1..UoBatches |-> UoBatch(i, s0, UoOffset(i))]
        v  == [i \in 1..UoBatches |-> [a \in 1..Len(bs[i]) |-> bs[i][a].val]]
    IN  /\ uoOut' = << [batches   |-> bs,
                        upOutCall |-> [i \in 1..UoBatches |-> Mean(v[i])],
                        sig       |-> [i \in 1..UoBatches |->
                                          DivFix(Std(v[i]), np_sqrt(Fix(i * UoPathUnit)))],
                        analyValue |-> analytical_value_Call_Up_Out(S,
                                          [S0 |-> S, K |-> g.K, L |-> g.L, r |-> g.r,
                                           sigma |-> g.sigma, T |-> g.T])] >>
        /\ rng' = Advance(s0, UoOffset(UoBatches + 1))
        /\ UNCHANGED << S, bsCall, bsPut, upOutCalls, treeVars, gen, mcOut, C, cvaOut >>

\* C = S*cdf(d1(S,K,r,sigma,T)) - K*exp(-r*T)*cdf(d2(S,K,r,sigma,T)).
VanillaCall(Sg) ==
    LET g == Params
    IN  Sg * norm_cdf(d1(Sg, g.K, g.r, g.sigma, g.T))
          - MulFix(g.K * np_exp(-MulFix(g.r, g.T)), norm_cdf(d2(Sg, g.K, g.r, g.sigma, g.T)))

\* The vanilla call cell.
VanillaCallCell ==
    /\ C' = VanillaCall(S)
    /\ UNCHANGED << S, bsCall, bsPut, upOutCalls, treeVars, gen, rng, mcOut, uoOut, cvaOut >>

\* The CVA cell: the number of steps m (1000) and of paths (50000).
CvaM == 2
CvaPaths == 2

\* dt = 1/m.
CvaDt == SCALE \div CvaM

\* H = cholesky([[1,rho],[rho,1]]) = [[1,0],[rho,sqrt(1-rho**2)]], and the two
\* rows of matmul(H, norm_matrix) for one path.
Corr0(rho, z0, z1) == MulFix(SCALE, z0) + MulFix(0, z1)
Corr1(rho, z0, z1) == MulFix(rho, z0) + MulFix(np_sqrt(SCALE - MulFix(rho, rho)), z1)

\* The variates of step j (0-based) for path k: norm_matrix[0,k] and
\* norm_matrix[1,k] of np.random.normal(size=(2,50000)), filled row by row.
CvaZ0(s0, j, k) == Draw(s0, j * 2 * CvaPaths + (k - 1))
CvaZ1(s0, j, k) == Draw(s0, j * 2 * CvaPaths + CvaPaths + (k - 1))

\* The factor of one step of paths: exp((r-sigma**2/2)*dt + sigma*sqrt(dt)*corr[0]).
CvaAssetStep(z0, z1) ==
    np_exp(MulFix(Params.r - MulFix(Params.sigma, Params.sigma) \div 2, CvaDt)
             + MulFix(MulFix(Params.sigma, np_sqrt(CvaDt)), Corr0(Params.rho, z0, z1)))

\* The factor of one step of firm_path:
\* exp((r-sigma2**2/2)*dt + sigma2*sqrt(dt)*corr[1]).
CvaFirmStep(z0, z1) ==
    np_exp(MulFix(Params.r - MulFix(Params.sigma2, Params.sigma2) \div 2, CvaDt)
             + MulFix(MulFix(Params.sigma2, np_sqrt(CvaDt)), Corr1(Params.rho, z0, z1)))

\* The factors by pair of variates, computed once.
CvaAssetSteps == [z \in Normals \X Normals |-> CvaAssetStep(z[1], z[2])]
CvaFirmSteps == [z \in Normals \X Normals |-> CvaFirmStep(z[1], z[2])]

\* ClampPayoff with the assignment left out.
ClampPayoffMissing(x) == x

\* final_values[final_values < 0] = 0.
ClampPayoff(x) == IF x < 0 THEN 0 ELSE x

\* The knock-out test of the CVA cell: max_values >= L.
CvaKnockedOut(mx, L) == mx >= Fix(L)

\* final_values of one path: paths[:,-1] - K, clamped, zeroed on knock-out.
FinalValue(row) ==
    IF CvaKnockedOut(MaxSeq(row, Len(row)), Params.L) THEN 0
    ELSE ClampPayoff(row[Len(row)] - Fix(Params.K))

\* amount_lost of one path: exp(-r*T)*(1-recovery)*(term_firm_val < debt)*final_values.
AmountLost(recovery, firmT, fv) ==
    MulFix(MulFix(Discount, SCALE - recovery) * (IF firmT < Fix(Params.debt) THEN 1 ELSE 0),
           fv)

\* default_prob = cdf(-d2(V,debt,r,sigma,T)).
DefaultProb == norm_cdf(-d2(Params.V, Params.debt, Params.r, Params.sigma, Params.T))

\* The CVA cell, run with the module-level recovery rate `recovery`.
CvaCell(recovery) ==
    LET s0   == SeedState(42)
        zs   == [k \in 1..CvaPaths |->
                   [j \in 1..CvaM |-> << CvaZ0(s0, j - 1, k), CvaZ1(s0, j - 1, k) >>]]
        rows == [k \in 1..CvaPaths |->
                   StepRow(Fix(S), [j \in 1..CvaM |-> CvaAssetSteps[zs[k][j]]], CvaM)]
        firm == [k \in 1..CvaPaths |->
                   StepRow(Fix(Params.V), [j \in 1..CvaM |-> CvaFirmSteps[zs[k][j]]], CvaM)]
        fv   == [k \in 1..CvaPaths |-> FinalValue(rows[k])]
        lost == [k \in 1..CvaPaths |-> AmountLost(recovery, firm[k][CvaM + 1], fv[k])]
    IN  /\ cvaOut' = << [recovery     |-> recovery,
                         paths        |-> rows,
                         firm_path    |-> firm,
                         final_values |-> fv,
                         amount_lost  |-> lost,
                         cva_est      |-> Mean(lost),
                         cva_std      |-> DivFix(Std(lost), np_sqrt(Fix(CvaPaths))),
                         DFValue      |-> Mean([k \in 1..CvaPaths |-> MulFix(fv[k], Discount)]),
                         default_prob |-> DefaultProb,
                         uncorr_cva   |-> MulFix(MulFix(SCALE - recovery, DefaultProb), C)] >>
        /\ rng' = Advance(s0, CvaM * 2 * CvaPaths)
        /\ UNCHANGED << S, bsCall, bsPut, upOutCalls, treeVars, gen, mcOut, uoOut, C >>

\* The notebook's process once the parameter cell and the vanilla call cell
\* have run: every generator, in any state, the spot 100 or 150, and C as its
\* cell computed it.
InitSim ==
    /\ S \in {100, 150}
    /\ FreshPricers
    /\ gen \in [0..(RngPeriod - 1) -> Normals]
    /\ rng \in 0..(RngPeriod - 1)
    /\ C = VanillaCall(S)

NextSim ==
    \/ UpOutCell
    \/ VanillaCallCell
    \/ \E rec \in Recoveries : CvaCell(rec)

SpecSim == InitSim /\ [][NextSim]_vars

(***************************************************************************)
(* The properties checked.                                                 *)
(***************************************************************************)
\* C1: every call of analytical_value_Call_Up_Out whose barrier is not
\* strictly above the spot (L <= S0) fails with InvalidParameter and returns
\* no price.
UpOutRejectsBreachedBarrier ==
    \A k \in 1..Len(upOutCalls) :
        upOutCalls[k].args.L <= upOutCalls[k].args.S0
            => upOutCalls[k].out.status = "InvalidParameter"

\* C2: in the Monte Carlo barrier cell, a path whose maximum over all its
\* observations (the initial one included) is at or above L has value zero,
\* and every other path has the discounted call payoff at maturity.
UoKnockOutAtOrAboveBarrier ==
    uoOut # << >> =>
        \A i \in 1..Len(uoOut[1].batches) :
            \A a \in 1..Len(uoOut[1].batches[i]) :
                LET pth == uoOut[1].batches[i][a]
                IN  IF pth.mx >= Fix(Params.L)
                    THEN pth.val = 0
                    ELSE pth.val = MulFix(Discount, Maximum0(pth.last - Fix(Params.K)))

\* C3: for every generator and every recovery rate in [0,1], the CVA cell's
\* loss is on each path between 0 and the discounted payoff, is 0 on a path
\* without default, and 0 <= cva_est <= DFValue.
CvaBetweenZeroAndDefaultFree ==
    cvaOut # << >> =>
        LET o == cvaOut[1]
        IN  /\ 0 <= o.cva_est
            /\ o.cva_est <= o.DFValue
            /\ \A k \in 1..Len(o.amount_lost) :
                  /\ 0 <= o.amount_lost[k]
                  /\ o.amount_lost[k] <= MulFix(o.final_values[k], Discount)
                  /\ o.firm_path[k][Len(o.firm_path[k])] >= Fix(Params.debt)
                        => o.amount_lost[k] = 0

\* C3, its case: a run with a partial recovery in which a path defaulted with
\* a positive payoff, so that 0 < cva_est < DFValue.
CvaLossReached ==
    /\ cvaOut # << >>
    /\ cvaOut[1].recovery > 0
    /\ cvaOut[1].cva_est > 0
    /\ cvaOut[1].cva_est < cvaOut[1].DFValue

\* C4: a call of vanillaMC with the arguments of the call before it yields
\* the same path array and the same price, whatever state the generator
\* was in when either call was made.
McDeterministic ==
    [][(mcOut # << >> /\ mcOut' # << >> /\ mcOut'[1].args = mcOut[1].args)
          => (mcOut'[1].path = mcOut[1].path /\ mcOut'[1].price = mcOut[1].price)]_vars

\* C4, its case: a second call with the same arguments, made when the
\* generator was in another state than the seeded one.
McRepeatedFromOtherState ==
    /\ mcOut # << >>
    /\ mcOut[1].again
    /\ mcOut[1].rngBefore # SeedState(42)

\* C5: for a call price and a put price of vanillaBS at the same arguments,
\* call - put = S0 - K*exp(-r*T), to within two units of the last place.
PutCallParity ==
    (bsCall # << >> /\ bsPut # << >> /\ bsCall[1].args = bsPut[1].args) =>
        LET a   == bsCall[1].args
            gap == bsCall[1].price - bsPut[1].price
                     - (Fix(a.S0) - a.K * np_exp(-MulFix(a.r, a.T)))
        IN  -2 <= gap /\ gap <= 2

\* C5, its case: both prices at the same arguments, the rate positive and
\* both prices positive.
ParityPairPriced ==
    /\ bsCall # << >>
    /\ bsPut # << >>
    /\ bsCall[1].args = bsPut[1].args
    /\ bsCall[1].args.r > 0
    /\ bsCall[1].price > 0
    /\ bsPut[1].price > 0

\* C6: the uncorrelated CVA is (1 - recovery) * cdf(-d2(V, debt, r, sigma2, T))
\* * C, the default probability taken with the firm-value volatility sigma2.
UncorrCvaUsesFirmVol ==
    cvaOut # << >> =>
        cvaOut[1].uncorr_cva =
            MulFix(MulFix(SCALE - cvaOut[1].recovery,
                          norm_cdf(-d2(Params.V, Params.debt, Params.r, Params.sigma2,
                                       Params.T))),
                   C)

\* C7: the steps of a vanillaMC path together span the maturity: steps*dt = T.
McStepsSpanMaturity ==
    mcOut # << >> => mcOut[1].steps * mcOut[1].dt = mcOut[1].args.T

\* C8: two calls of analytical_value_Call_Up_Out with equal arguments return
\* equal values, whatever the module-level spot held at each call.
UpOutValueFromArgsAlone ==
    (Len(upOutCalls) = 2 /\ upOutCalls[1].args = upOutCalls[2].args)
        => upOutCalls[1].out = upOutCalls[2].out

\* C9: a call of vanillaTree whose up-probability p is outside [0,1] ends
\* with InvalidParameter, not with a price.
TreeRejectsBadProbability ==
    (pc = "done" /\ (tp[1].p < 0 \/ tp[1].p > SCALE))
        => treeOut[1].status = "InvalidParameter"

\* C10: every step of the backward induction is at a node (i, j) with
\* 0 <= i <= j <= N-1 and reads exactly (i, j+1) and (i+1, j+1), both inside
\* the grid, inside the triangle and already final; no node is assigned
\* twice; and when the root is returned every node of the triangle is final.
TreeInductionReadsFinalNodes ==
    /\ rewritten = {}
    /\ visit # << >> =>
          LET N == tp[1].args.N
              v == visit[1]
          IN  /\ v.node \in Triangle(N)
              /\ v.node[2] <= N - 1
              /\ v.reads = { <<v.node[1], v.node[2] + 1>>, <<v.node[1] + 1, v.node[2] + 1>> }
              /\ v.reads \subseteq Triangle(N)
              /\ v.final = v.reads
    /\ pc = "backward" => (0 <= ti /\ ti <= tj /\ tj <= tp[1].args.N - 1)
    /\ pc \in {"return", "done"} => Triangle(tp[1].args.N) \subseteq assigned
    /\ pc = "done" =>
          treeOut[1].price = IF tp[1].args.c THEN call[<<0, 0>>] ELSE put[<<0, 0>>]

\* C10, its case: a lattice of MaxN steps priced to its root.
TreeInductionDone ==
    /\ pc = "done"
    /\ tp[1].args.N = MaxN
    /\ visit # << >>
    /\ visit[1].node = <<0, 0>>

====
